---- MODULE Spec2Model ----
(***************************************************************************)
(* Model of the scrypt R package front end (src/scrypt.cpp): the parameter *)
(* selector getparams, the record construction hashPassword and the record *)
(* verification verifyPassword.                                            *)
(*                                                                         *)
(* Numbers.  C doubles are modelled as exact rationals [n, d] (record Rat).*)
(* The inputs are binary fractions (eighths, quarters) and all values stay *)
(* below 2^53, so every double operation of getparams is exact and the     *)
(* rational is the value the program computes.  Conversions double->size_t *)
(* and double->uint32_t truncate (RatFloor).                               *)
(***************************************************************************)
EXTENDS Integers, Sequences, FiniteSets, TLC

VARIABLES
    totalmem,   \* bytes reported by the memory probe (getmemlimit)
    opps,       \* salsa20/8 cores per second reported by getcpuperf
    allocmax,   \* bytes the KDF is able to allocate on this host
    sel,        \* result of the latest getparams call
    prev,       \* the getparams call before it, when it succeeded with the same maxmem
    pc,         \* position of the running call
    call,       \* arguments of the running call
    par,        \* locals logN (n = 2^logN), r, p of the running call
    salt,       \* local salt[32]
    key,        \* local key[64]
    buf,        \* local outbuf[96] / inbuf[96]
    written,    \* number of bytes std::copy stored through inbuf
    kdfCalls,   \* crypto_scrypt invocations made by the running call
    trace,      \* checks the running call has performed, in order
    ret,        \* what the finished call handed to its caller
    stored      \* the value the caller kept from the last hashPassword

vars == <<totalmem, opps, allocmax, sel, prev, pc, call, par, salt, key, buf,
          written, kdfCalls, trace, ret, stored>>

(***************************************************************************)
(* Bounds of the model.                                                    *)
(***************************************************************************)
MaxMemK   == 5    \* memory probes: MemStep * 1..MaxMemK bytes
MaxOppsK  == 4    \* cpu probes: OppsStep * 4^(0..MaxOppsK-1) per second
MaxTimeQ  == 6    \* time budgets: 0..MaxTimeQ quarter seconds
MaxExtra  == 2    \* decoded inputs of up to 96 + MaxExtra bytes
NumSalts  == 2    \* salts the entropy source may deliver
NumPasswd == 2    \* passwords

(***************************************************************************)
(* Exact rationals standing for C doubles.                                 *)
(***************************************************************************)
Rat(n, d) == [n |-> n, d |-> d]

RatMulInt(a, k) == Rat(a.n * k, a.d)

RatDivInt(a, k) == Rat(a.n, a.d * k)

RatFloor(a) == a.n \div a.d

\* a < k, a > k and k > a for a rational a and an integer k (no products,
\* so that no intermediate value leaves the integer range)
RatLtInt(a, k) == RatFloor(a) < k

RatGtInt(a, k) == RatFloor(a) > k \/ (RatFloor(a) = k /\ a.n % a.d # 0)

IntGtRat(k, a) == k > RatFloor(a)

IntLeRat(k, a) == k <= RatFloor(a)

RatGt(a, b) == a.n * b.d > b.n * a.d

(***************************************************************************)
(* getparams (scrypt.cpp 19-90)                                            *)
(***************************************************************************)
\* the search with the test 2^logN > maxN
RECURSIVE pickLogN_full(_, _)
pickLogN_full(logN, maxN) ==
    IF logN < 63
    THEN IF IntGtRat(2 ^ logN, maxN)
         THEN logN
         ELSE pickLogN_full(logN + 1, maxN)
    ELSE logN

\* for (*logN = 1; *logN < 63; *logN += 1) if ((uint64_t)1 << *logN > maxN / 2) break;
RECURSIVE pickLogN(_, _)
pickLogN(logN, maxN) ==
    IF logN < 63
    THEN IF IntGtRat(2 ^ logN, RatDivInt(maxN, 2))
         THEN logN
         ELSE pickLogN(logN + 1, maxN)
    ELSE logN

\* memlimit after the fraction cap and the 1 MiB floor (lines 34-42)
getMemlimit(total, maxmem) ==
    LET m == IF RatGt(maxmem, Rat(1, 2)) \/ maxmem.n = 0
             THEN RatFloor(RatMulInt(Rat(1, 2), total))
             ELSE RatFloor(RatMulInt(maxmem, total))
    IN  IF m < 1048576 THEN 1048576 ELSE m

\* a floor ten times too high
getOpslimit_high(speed, maxtime) ==
    LET o == RatMulInt(maxtime, speed)
    IN  IF RatLtInt(o, 32768) THEN Rat(327680, 1) ELSE o

\* opslimit after the 2^15 floor (lines 51-55)
getOpslimit(speed, maxtime) ==
    LET o == RatMulInt(maxtime, speed)
    IN  IF RatLtInt(o, 32768) THEN Rat(32768, 1) ELSE o

\* the branch test inverted
cpuBound_inv(opslimit, memlimit) == ~RatLtInt(opslimit, memlimit \div 32)

\* the branch test against memlimit/1024
cpuBound_1024(opslimit, memlimit) == RatLtInt(opslimit, memlimit \div 1024)

\* the branch test of line 65: opslimit < memlimit/32 (size_t division)
cpuBound(opslimit, memlimit) == RatLtInt(opslimit, memlimit \div 32)

\* memrc / cpurc are the return codes of the two probes
getparams(memrc, total, cpurc, speed, maxmem, maxtime) ==
    IF memrc # 0 THEN [rc |-> memrc]
    ELSE IF cpurc # 0 THEN [rc |-> cpurc]
    ELSE
      LET memlimit == getMemlimit(total, maxmem)
          opslimit == getOpslimit(speed, maxtime)
          r        == 8
      IN  IF cpuBound(opslimit, memlimit)
          THEN LET maxN == RatDivInt(opslimit, r * 4)
               IN  [rc |-> 0, logN |-> pickLogN(1, maxN), r |-> r, p |-> 1,
                    cpu |-> TRUE, memlimit |-> memlimit, opslimit |-> opslimit]
          ELSE LET maxN  == Rat(memlimit \div (r * 128), 1)
                   logN  == pickLogN(1, maxN)
                   maxrp == RatDivInt(RatDivInt(opslimit, 4), 2 ^ logN)
                   capped == IF RatGtInt(maxrp, 1073741823)
                             THEN 1073741823 ELSE RatFloor(maxrp)
               IN  [rc |-> 0, logN |-> logN, r |-> r, p |-> capped \div r,
                    cpu |-> FALSE, memlimit |-> memlimit, opslimit |-> opslimit]

(***************************************************************************)
(* Byte strings and the external primitives.  Bytes are 0..255, a buffer   *)
(* is a sequence of bytes (index i of the C array is element i+1).         *)
(***************************************************************************)
Slice(b, from, len) == SubSeq(b, from + 1, from + len)

RECURSIVE WeightedSum(_, _)
WeightedSum(b, i) ==
    IF i > Len(b) THEN 0 ELSE ((2 * i + 1) * b[i] + WeightedSum(b, i + 1)) % 256

Digest(seed, len) == [i \in 1..len |-> (seed + 7 * i) % 256]

\* scrypt_SHA256_Init/Update/Final: a fixed function of the message, 32 bytes
SHA256(msg) == Digest(WeightedSum(msg, 1) + Len(msg), 32)

\* scrypt_HMAC_SHA256_Init/Update/Final: a fixed function of key and message
HMAC_SHA256(k, msg) ==
    Digest(WeightedSum(msg, 1) + 3 * WeightedSum(k, 1) + 101, 32)

\* crypto_scrypt fails on r*p >= 2^30, on N < 2 and when 128*N*r bytes cannot
\* be allocated; N is passed as its exponent logN
KdfFails(logN, r, p, avail) ==
    \/ logN < 1
    \/ p = 0
    \/ r = 0
    \/ r > 1073741823 \div p
    \/ logN > 30
    \/ (2 ^ logN) > (avail \div 128) \div r

\* crypto_scrypt output: 64 bytes fixed by (passwd, salt, N, r, p)
crypto_scrypt(passwd, s, logN, r, p) ==
    Digest(WeightedSum(passwd, 1) + 5 * WeightedSum(s, 1)
           + 11 * logN + 13 * (r % 256) + 17 * (p % 256) + 19 * (r \div 256)
           + 23 * (p \div 256), 64)

\* util/sysendian.h
be32enc(x) ==
    << (x \div 16777216) % 256, (x \div 65536) % 256, (x \div 256) % 256, x % 256 >>

be32dec(b) == b[1] * 16777216 + b[2] * 65536 + b[3] * 256 + b[4]

(***************************************************************************)
(* base64.hpp.  A text is a sequence of sextet values 0..63, with 64 for   *)
(* the padding character '='.                                              *)
(***************************************************************************)
ByteAt(b, i) == IF i <= Len(b) THEN b[i] ELSE 0

b64encode(b) ==
    [k \in 1..(4 * ((Len(b) + 2) \div 3)) |->
        LET g  == (k - 1) \div 4
            b0 == ByteAt(b, 3 * g + 1)
            b1 == ByteAt(b, 3 * g + 2)
            b2 == ByteAt(b, 3 * g + 3)
        IN  CASE (k - 1) % 4 = 0 -> b0 \div 4
              [] (k - 1) % 4 = 1 -> (b0 % 4) * 16 + b1 \div 16
              [] (k - 1) % 4 = 2 -> IF 3 * g + 2 > Len(b) THEN 64
                                    ELSE (b1 % 16) * 4 + b2 \div 64
              [] OTHER           -> IF 3 * g + 3 > Len(b) THEN 64
                                    ELSE b2 % 64]

\* number of sextets before the padding
RECURSIVE DataLen(_, _)
DataLen(t, i) == IF i > Len(t) \/ t[i] = 64 THEN i - 1 ELSE DataLen(t, i + 1)

b64decode(t) ==
    LET n == DataLen(t, 1)
    IN  [k \in 1..((n * 3) \div 4) |->
            LET g  == (k - 1) \div 3
                c0 == t[4 * g + 1]
                c1 == t[4 * g + 2]
                c2 == IF 4 * g + 3 <= n THEN t[4 * g + 3] ELSE 0
                c3 == IF 4 * g + 4 <= n THEN t[4 * g + 4] ELSE 0
            IN  CASE (k - 1) % 3 = 0 -> c0 * 4 + c1 \div 16
                  [] (k - 1) % 3 = 1 -> (c1 % 16) * 16 + c2 \div 4
                  [] OTHER           -> (c2 % 4) * 64 + c3]

(***************************************************************************)
(* Inputs.                                                                 *)
(***************************************************************************)
MemStep  == 6000000
OppsStep == 100000

TotalMems == {MemStep * k : k \in 1..MaxMemK}

OppsSet == {OppsStep * (4 ^ k) : k \in 0..(MaxOppsK - 1)}

MaxMems == {Rat(k, 8) : k \in {0, 1, 2, 3, 4, 6}}

MaxTimes == {Rat(k, 4) : k \in 0..MaxTimeQ}

Passwords == {<<112, 119, 48 + k>> : k \in 1..NumPasswd}

Salts == {[j \in 1..32 |-> (37 * k + 5 * j) % 256] : k \in 1..NumSalts}

Tag == <<115, 99, 114, 121, 112, 116>>    \* "scrypt"

None == [rc |-> -1]

NoPrev == [out |-> None]

NoPar == [logN |-> 0, r |-> 0, p |-> 0]

NoCall == [op |-> "none"]

\* an R character vector of n empty strings
EmptyStrings(n) == [i \in 1..n |-> <<>>]

FlipBit(b, pos, bit) ==
    [b EXCEPT ![pos + 1] = IF (b[pos + 1] \div (2 ^ bit)) % 2 = 1
                           THEN b[pos + 1] - 2 ^ bit
                           ELSE b[pos + 1] + 2 ^ bit]

\* bytes 48-63 rewritten to match bytes 0-47
Rechecksum(b) ==
    Slice(b, 0, 48) \o Slice(SHA256(Slice(b, 0, 48)), 0, 16) \o Slice(b, 64, 32)

Pad(n) == [i \in 1..n |-> (90 + i) % 256]

\* a record with one bit of its 768 flipped
Flipped(rec) == {FlipBit(rec, pos, bit) : pos \in 0..95, bit \in 0..7}

\* other byte strings a caller may present for a record it was given: the
\* record itself, byte 7 set to 62 (with the old and with a fresh checksum),
\* truncations and extensions
Reshaped(rec) ==
    {rec, [rec EXCEPT ![8] = 62], Rechecksum([rec EXCEPT ![8] = 62])}
    \cup {SubSeq(rec, 1, n) : n \in {0, 1, 47, 94, 95}}
    \cup {rec \o Pad(n) : n \in 1..MaxExtra}
    \cup {FlipBit(rec, 0, 0) \o Pad(n) : n \in 1..MaxExtra}

(***************************************************************************)
(* hashPassword (scrypt.cpp 113-171)                                       *)
(***************************************************************************)
Fresh ==
    /\ salt' = <<>>
    /\ key' = <<>>
    /\ buf' = <<>>
    /\ written' = 0
    /\ kdfCalls' = 0
    /\ trace' = <<>>
    /\ ret' = [kind |-> "none"]
    /\ sel' = None
    /\ prev' = NoPrev
    /\ par' = NoPar

Machine == <<totalmem, opps, allocmax>>

HashCall(passwd, maxmem, maxtime) ==
    /\ pc = "idle"
    /\ pc' = "h_getparams"
    /\ call' = [op |-> "hash", passwd |-> passwd, maxmem |-> maxmem,
                maxtime |-> maxtime]
    /\ Fresh
    /\ UNCHANGED <<Machine, stored>>

\* lines 128-130: rc = (getparams(...) != 0); a non-zero rc is returned,
\* converted to a CharacterVector of rc elements
HGetparams(memrc, cpurc) ==
    /\ pc = "h_getparams"
    /\ LET g  == getparams(memrc, totalmem, cpurc, opps, call.maxmem, call.maxtime)
           rc == IF g.rc # 0 THEN 1 ELSE 0
       IN  /\ sel' = g
           /\ IF rc # 0
              THEN /\ ret' = [kind |-> "value", val |-> EmptyStrings(rc)]
                   /\ trace' = Append(trace, "getparams_fail")
                   /\ par' = par
                   /\ pc' = "h_done"
              ELSE /\ ret' = ret
                   /\ par' = [logN |-> g.logN, r |-> g.r, p |-> g.p]
                   /\ trace' = Append(trace, "getparams")
                   /\ pc' = "h_getsalt"
    /\ UNCHANGED <<Machine, prev, call, salt, key, buf, written, kdfCalls, stored>>

\* lines 132-134: getsalt fills salt[32] or returns a non-zero code
HGetsalt(rc, s) ==
    /\ pc = "h_getsalt"
    /\ IF rc # 0
       THEN /\ ret' = [kind |-> "value", val |-> EmptyStrings(rc)]
            /\ trace' = Append(trace, "getsalt_fail")
            /\ salt' = salt
            /\ pc' = "h_done"
       ELSE /\ ret' = ret
            /\ trace' = Append(trace, "getsalt")
            /\ salt' = s
            /\ pc' = "h_kdf"
    /\ UNCHANGED <<Machine, sel, prev, call, par, key, buf, written, kdfCalls, stored>>

\* lines 136-147: the derived key; on failure `return false`, converted to a
\* CharacterVector of 0 elements
HKdf ==
    /\ pc = "h_kdf"
    /\ kdfCalls' = kdfCalls + 1
    /\ IF KdfFails(par.logN, par.r, par.p, allocmax)
       THEN /\ ret' = [kind |-> "value", val |-> EmptyStrings(0)]
            /\ trace' = Append(trace, "kdf_fail")
            /\ key' = key
            /\ pc' = "h_done"
       ELSE /\ ret' = ret
            /\ trace' = Append(trace, "kdf")
            /\ key' = crypto_scrypt(call.passwd, salt, par.logN, par.r, par.p)
            /\ pc' = "h_construct"
    /\ UNCHANGED <<Machine, sel, prev, call, par, salt, buf, written, stored>>

\* the header with r and p written at each other's offset
Header_swap(logN, r, p, s) ==
    Tag \o <<0>> \o <<logN % 256>> \o be32enc(p) \o be32enc(r) \o s

\* lines 150-155: the 48 header bytes
Header(logN, r, p, s) ==
    Tag \o <<0>> \o <<logN % 256>> \o be32enc(r) \o be32enc(p) \o s

\* lines 157-161: header plus truncated checksum
WithChecksum(h) == h \o Slice(SHA256(Slice(h, 0, 48)), 0, 16)

\* lines 163-167: plus the signature keyed with key[32..63]
WithSignature(b, k) == b \o HMAC_SHA256(Slice(k, 32, 32), Slice(b, 0, 64))

\* lines 149-170
HConstruct ==
    /\ pc = "h_construct"
    /\ buf' = WithSignature(WithChecksum(Header(par.logN, par.r, par.p, salt)), key)
    /\ ret' = [kind |-> "value", val |-> <<b64encode(buf')>>]
    /\ trace' = Append(trace, "record")
    /\ pc' = "h_done"
    /\ UNCHANGED <<Machine, sel, prev, call, par, salt, key, written, kdfCalls, stored>>

\* the caller keeps what it was given, with the call that produced it
HReturn ==
    /\ pc = "h_done"
    /\ stored' = [val |-> ret.val, passwd |-> call.passwd, trace |-> trace,
                  par |-> par, salt |-> salt]
    /\ pc' = "idle"
    /\ call' = NoCall
    /\ Fresh
    /\ UNCHANGED Machine

(***************************************************************************)
(* verifyPassword (scrypt.cpp 194-245)                                     *)
(***************************************************************************)
NoStored == [val |-> <<>>, passwd |-> <<>>, trace |-> <<>>, par |-> NoPar,
             salt |-> <<>>]

IsRecord(st) == Len(st.trace) > 0 /\ st.trace[Len(st.trace)] = "record"

\* (hash, passwd) pairs the caller may pass: what it kept from hashPassword,
\* reshaped with any password, or with one bit flipped and the password the
\* record was made for
Candidates(st) ==
    IF Len(st.val) = 0 THEN {}
    ELSE IF ~IsRecord(st) THEN {<<st.val[1], pw>> : pw \in Passwords}
    ELSE LET rec == b64decode(st.val[1])
         IN  {<<b64encode(v), pw>> : v \in Reshaped(rec), pw \in Passwords}
             \cup {<<b64encode(v), st.passwd>> : v \in Flipped(rec)}

VerifyCall ==
    /\ pc = "idle"
    /\ \E c \in Candidates(stored) :
          call' = [op |-> "verify", hash |-> c[1], passwd |-> c[2]]
    /\ pc' = "v_decode"
    /\ Fresh
    /\ UNCHANGED <<Machine, stored>>

\* a length guard that lets a 95 byte input through
TooShort_m(b) == Len(b) < 95

\* line 210: b.length() < 96
TooShort(b) == Len(b) < 96

\* inbuf[0..95] after the copy of line 214
CopyIn(b) == [i \in 1..96 |-> ByteAt(b, i)]

\* lines 208-214: decode, length guard, std::copy(b.begin(), b.end(), inbuf).
\* The copy stores Len(b) bytes through a 96 byte array; past 96 bytes the
\* behaviour is undefined: the call either goes on with inbuf holding the
\* first 96 bytes or the process is brought down (smash = TRUE).
VDecode(smash) ==
    /\ pc = "v_decode"
    /\ LET b == b64decode(call.hash)
       IN  IF TooShort(b)
           THEN /\ ret' = [kind |-> "value", val |-> FALSE]
                /\ trace' = Append(trace, "too_short")
                /\ buf' = buf
                /\ written' = written
                /\ pc' = "v_done"
           ELSE /\ written' = Len(b)
                /\ buf' = CopyIn(b)
                /\ IF Len(b) > 96 /\ smash
                   THEN /\ ret' = [kind |-> "crash"]
                        /\ trace' = Append(trace, "overflow")
                        /\ pc' = "v_done"
                   ELSE /\ ret' = ret
                        /\ trace' = Append(trace, "copied")
                        /\ pc' = "v_header"
    /\ UNCHANGED <<Machine, sel, prev, call, par, salt, key, kdfCalls, stored>>

\* lines 222-226: memcmp(&inbuf[48], tmp, 16) == 0
ChecksumOk(b) == Slice(b, 48, 16) = Slice(SHA256(Slice(b, 0, 48)), 0, 16)

\* lines 216-220: n = 1 << inbuf[7], r, p
ParseParams(b) ==
    [logN |-> b[8], r |-> be32dec(Slice(b, 8, 4)), p |-> be32dec(Slice(b, 12, 4))]

\* lines 220: salt
ParseSalt(b) == Slice(b, 16, 32)

\* lines 216-229: parse, then the header checksum.  The parsed locals are
\* read only after the checksum has passed.
VHeader ==
    /\ pc = "v_header"
    /\ IF ~ChecksumOk(buf)
       THEN /\ ret' = [kind |-> "value", val |-> FALSE]
            /\ trace' = Append(trace, "checksum_fail")
            /\ par' = par
            /\ salt' = salt
            /\ pc' = "v_done"
       ELSE /\ ret' = ret
            /\ trace' = Append(trace, "checksum_ok")
            /\ par' = ParseParams(buf)
            /\ salt' = ParseSalt(buf)
            /\ pc' = "v_kdf"
    /\ UNCHANGED <<Machine, sel, prev, call, key, buf, written, kdfCalls, stored>>

\* lines 231-235
VKdf ==
    /\ pc = "v_kdf"
    /\ kdfCalls' = kdfCalls + 1
    /\ IF KdfFails(par.logN, par.r, par.p, allocmax)
       THEN /\ ret' = [kind |-> "value", val |-> FALSE]
            /\ trace' = Append(trace, "kdf_fail")
            /\ key' = key
            /\ pc' = "v_done"
       ELSE /\ ret' = ret
            /\ trace' = Append(trace, "kdf")
            /\ key' = crypto_scrypt(call.passwd, salt, par.logN, par.r, par.p)
            /\ pc' = "v_mac"
    /\ UNCHANGED <<Machine, sel, prev, call, par, salt, buf, written, stored>>

\* a comparison of the first 16 signature bytes only
SignatureOk_short(b, k) ==
    Slice(HMAC_SHA256(Slice(k, 32, 32), Slice(b, 0, 64)), 0, 16) = Slice(b, 64, 16)

\* lines 237-241: memcmp(tmp, &inbuf[64], 32) == 0
SignatureOk(b, k) ==
    HMAC_SHA256(Slice(k, 32, 32), Slice(b, 0, 64)) = Slice(b, 64, 32)

\* lines 237-244
VMac ==
    /\ pc = "v_mac"
    /\ IF ~SignatureOk(buf, key)
       THEN /\ ret' = [kind |-> "value", val |-> FALSE]
            /\ trace' = Append(trace, "mac_fail")
       ELSE /\ ret' = [kind |-> "value", val |-> TRUE]
            /\ trace' = Append(trace, "mac_ok")
    /\ pc' = "v_done"
    /\ UNCHANGED <<Machine, sel, prev, call, par, salt, key, buf, written, kdfCalls, stored>>

VReturn ==
    /\ pc = "v_done"
    /\ pc' = "idle"
    /\ call' = NoCall
    /\ Fresh
    /\ UNCHANGED <<Machine, stored>>

(***************************************************************************)
(* Specification of the hash / verify calls on one host.                   *)
(***************************************************************************)
Init ==
    /\ totalmem = MemStep * MaxMemK
    /\ opps = OppsStep * 16
    /\ allocmax \in {MemStep \div 2, MemStep * 4}
    /\ sel = None
    /\ prev = NoPrev
    /\ pc = "idle"
    /\ call = NoCall
    /\ par = NoPar
    /\ salt = <<>>
    /\ key = <<>>
    /\ buf = <<>>
    /\ written = 0
    /\ kdfCalls = 0
    /\ trace = <<>>
    /\ ret = [kind |-> "none"]
    /\ stored = NoStored

Next ==
    \/ \E pw \in Passwords, m \in {Rat(1, 8), Rat(1, 2)}, t \in {Rat(1, 4)} :
          HashCall(pw, m, t)
    \/ \E memrc \in {0, 1}, cpurc \in {0, 2} : HGetparams(memrc, cpurc)
    \/ \E rc \in {0, 4}, s \in Salts : HGetsalt(rc, s)
    \/ HKdf
    \/ HConstruct
    \/ HReturn
    \/ VerifyCall
    \/ \E smash \in BOOLEAN : VDecode(smash)
    \/ VHeader
    \/ VKdf
    \/ VMac
    \/ VReturn

Spec == Init /\ [][Next]_vars

(***************************************************************************)
(* Specification of the parameter selector alone: getparams called again   *)
(* and again on a host whose probes are re-read by Calibrate.              *)
(***************************************************************************)
Calibrate(t, o) ==
    /\ pc = "idle"
    /\ totalmem' = t
    /\ opps' = o
    /\ sel' = None
    /\ prev' = NoPrev
    /\ call' = NoCall
    /\ UNCHANGED <<allocmax, pc, par, salt, key, buf, written, kdfCalls, trace,
                   ret, stored>>

Select(memrc, cpurc, maxmem, maxtime) ==
    /\ pc = "idle"
    /\ call' = [op |-> "getparams", maxmem |-> maxmem, maxtime |-> maxtime]
    /\ sel' = getparams(memrc, totalmem, cpurc, opps, maxmem, maxtime)
    /\ prev' = IF call.op = "getparams" /\ call.maxmem = maxmem /\ sel.rc = 0
               THEN [maxmem |-> call.maxmem, maxtime |-> call.maxtime, out |-> sel]
               ELSE NoPrev
    /\ UNCHANGED <<Machine, pc, par, salt, key, buf, written, kdfCalls, trace,
                   ret, stored>>

InitParams ==
    /\ totalmem \in TotalMems
    /\ opps \in OppsSet
    /\ allocmax = MemStep
    /\ sel = None
    /\ prev = NoPrev
    /\ pc = "idle"
    /\ call = NoCall
    /\ par = NoPar
    /\ salt = <<>>
    /\ key = <<>>
    /\ buf = <<>>
    /\ written = 0
    /\ kdfCalls = 0
    /\ trace = <<>>
    /\ ret = [kind |-> "none"]
    /\ stored = NoStored

NextParams ==
    \/ \E t \in TotalMems, o \in OppsSet : Calibrate(t, o)
    \/ \E memrc \in {0, 1}, cpurc \in {0, 2}, m \in MaxMems, t \in MaxTimes :
          Select(memrc, cpurc, m, t)

SpecParams == InitParams /\ [][NextParams]_vars

(***************************************************************************)
(* Properties.                                                             *)
(***************************************************************************)
True  == [kind |-> "value", val |-> TRUE]

False == [kind |-> "value", val |-> FALSE]

VerifyDone == pc = "v_done" /\ call.op = "verify"

HashDone == pc = "h_done" /\ call.op = "hash"

Decoded == b64decode(call.hash)

Last(tr) == tr[Len(tr)]

Failed(tr) ==
    \E i \in 1..Len(tr) : tr[i] \in {"getparams_fail", "getsalt_fail", "kdf_fail"}

\* the running verification is given the stored record with one bit flipped
\* somewhere in bytes lo..hi, and the password the record was made for
FlippedIn(lo, hi) ==
    /\ VerifyDone
    /\ IsRecord(stored)
    /\ call.passwd = stored.passwd
    /\ LET d    == Decoded
           rec  == b64decode(stored.val[1])
           diff == IF Len(d) = 96 THEN {i \in 0..95 : d[i + 1] # rec[i + 1]} ELSE {}
       IN  /\ Cardinality(diff) = 1
           /\ diff \subseteq lo..hi
           /\ \E pos \in diff, bit \in 0..7 : d = FlipBit(rec, pos, bit)

\* the running verification is given exactly what hashPassword returned, and
\* the password it was made for
RoundTrip ==
    /\ VerifyDone
    /\ IsRecord(stored)
    /\ call.hash = stored.val[1]
    /\ call.passwd = stored.passwd

\* C1: verifying the record hashPassword returned, with the same password,
\* returns true, and the logN, r, p and salt parsed from the record are the
\* ones hashPassword gave to the KDF.
C1_RoundTrip ==
    RoundTrip => /\ ret = True
                 /\ par = stored.par
                 /\ salt = stored.salt

C1_Witness == RoundTrip /\ Last(trace) = "mac_ok" /\ par.p > 1

\* C2: a record of at least 96 bytes whose bytes 48-63 differ from the
\* checksum of bytes 0-47 makes verifyPassword return false with no KDF call.
C2_ChecksumGate ==
    (VerifyDone /\ Len(Decoded) >= 96 /\ ~ChecksumOk(SubSeq(Decoded, 1, 96)))
        => (ret = False /\ kdfCalls = 0)

\* C3 as stated: one bit flipped anywhere in bytes 48-95 of a valid record
\* is rejected by the MAC comparison after exactly one KDF call.
C3_TrailerByMac ==
    FlippedIn(48, 95) => (ret = False /\ Last(trace) = "mac_fail" /\ kdfCalls = 1)

\* C3 amended: one bit flipped in bytes 64-95 (the signature) is rejected by
\* the MAC comparison after exactly one KDF call; one bit flipped in bytes
\* 48-63 (the checksum) is rejected by the checksum comparison with no KDF
\* call.
C3_TrailerSplit ==
    /\ FlippedIn(64, 95) => (ret = False /\ Last(trace) = "mac_fail" /\ kdfCalls = 1)
    /\ FlippedIn(48, 63) => (ret = False /\ Last(trace) = "checksum_fail" /\ kdfCalls = 0)

C3_Witness == FlippedIn(80, 95) /\ Last(trace) = "mac_fail"

C5_ErrorsSurface ==
    /\ (HashDone /\ Failed(trace)) => ret.kind = "error"
    /\ (HashDone /\ ret.kind = "value")
          => (Len(ret.val) = 1 /\ Len(b64decode(ret.val[1])) = 96)

\* the bound maxN of the branch that was taken
MaxNOf(g) ==
    IF g.cpu THEN RatDivInt(g.opslimit, 32) ELSE Rat(g.memlimit \div 1024, 1)

\* C6 as stated: N = 2^logN is the largest power of two not exceeding half of
\* maxN: N <= maxN/2 < 2N.
C6_HalfBound ==
    sel.rc = 0 => /\ IntLeRat(2 ^ sel.logN, RatDivInt(MaxNOf(sel), 2))
                  /\ RatLtInt(RatDivInt(MaxNOf(sel), 2), 2 * (2 ^ sel.logN))

\* C6 amended: N = 2^logN is the largest power of two not exceeding maxN
\* itself: N <= maxN < 2N.
C6_FullBound ==
    sel.rc = 0 => /\ IntLeRat(2 ^ sel.logN, MaxNOf(sel))
                  /\ RatLtInt(MaxNOf(sel), 2 * (2 ^ sel.logN))

C6_Witness ==
    /\ sel.rc = 0 /\ ~sel.cpu
    /\ prev.out.rc = 0 /\ prev.out.cpu
    /\ sel.logN > prev.out.logN

\* C7: the selected parameters keep 128*N*r within memlimit and 4*N*r*p
\* within opslimit.
C7_Budgets ==
    sel.rc = 0 => /\ 128 * (2 ^ sel.logN) * sel.r <= sel.memlimit
                  /\ IntLeRat(4 * (2 ^ sel.logN) * sel.r * sel.p, sel.opslimit)

C7_Witness ==
    /\ sel.rc = 0 /\ ~sel.cpu /\ sel.p > 1 /\ sel.memlimit = 1048576
    /\ prev.out.rc = 0 /\ prev.out.opslimit = Rat(32768, 1)

\* C8: every selected triple has r = 8, p >= 1 and 1 <= logN <= 63.
C8_ParamsInvariant ==
    sel.rc = 0 => (sel.r = 8 /\ sel.p >= 1 /\ sel.logN >= 1 /\ sel.logN <= 63)

C8_Witness == sel.rc = 0 /\ ~sel.cpu /\ sel.p = 1

\* C9: with the same host and the same mem_fraction, of two selections that
\* are both bound by the CPU the one with the larger time budget has the
\* larger or equal logN.
C9_Monotone ==
    (sel.rc = 0 /\ prev.out.rc = 0 /\ sel.cpu /\ prev.out.cpu)
        => /\ ~RatGt(prev.maxtime, call.maxtime) => prev.out.logN <= sel.logN
           /\ ~RatGt(call.maxtime, prev.maxtime) => sel.logN <= prev.out.logN

C9_Witness ==
    /\ sel.rc = 0 /\ prev.out.rc = 0 /\ sel.cpu /\ prev.out.cpu
    /\ RatGt(call.maxtime, prev.maxtime)
    /\ sel.logN > prev.out.logN

\* C10: the copy into inbuf[96] stores at most 96 bytes.
C10_BufferBound == written <= 96

====
